---- MODULE Spec2Model ----
(***************************************************************************)
(* Model of mesoscope/oddball_fm_sound_identity.ipynb: the two functions   *)
(* find_onsets and find_fm_direction and the notebook cells that call      *)
(* them.                                                                   *)
(*                                                                         *)
(* Arrays are sequences.  Index VALUES (the contents of onsetIndsAll and   *)
(* onsetInds, the loop counter indTrial) are the 0-based numpy indices;    *)
(* At(arr, i) reads numpy's arr[i].                                        *)
(* Amplitudes are integers counted in tenths: sample 2 is 0.2, threshold 1 *)
(* is the notebook's signalThreshold = 0.1.  The sample and threshold sets *)
(* are chosen so that no difference ever equals a threshold.               *)
(***************************************************************************)
EXTENDS Integers, Sequences, FiniteSets

VARIABLES sound, pc, error, signalThreshold, periodThreshold,
          onsetIndsAll, onsetInds,
          soundDurationInSamples, indTrial, sweepDirection,
          inFlight, classified

vars == <<sound, pc, error, signalThreshold, periodThreshold,
          onsetIndsAll, onsetInds,
          soundDurationInSamples, indTrial, sweepDirection,
          inFlight, classified>>

(* ------------------------------ bounds --------------------------------- *)
MaxLen == 7
MaxPeriod == 3

Samples == {-2, 0, 2}
SignalThresholds == {1, 3}
\* Half-window lengths whose DFT twiddle factors are all +1 or -1, so that
\* the magnitudes numpy computes in floating point are exact.
HalfWindows == {1, 2}
Durations == {2 * h : h \in HalfWindows}
Waveforms == UNION {[1..n -> Samples] : n \in 0..MaxLen}

(* ------------------------------ numpy ---------------------------------- *)
Min(a, b) == IF a < b THEN a ELSE b
Abs(x) == IF x < 0 THEN -x ELSE x

\* arr[i], i a 0-based index
At(arr, i) == arr[i + 1]

\* arr[a:b] for 0 <= a <= b: the slice is clipped to the array
Slice(arr, a, b) == SubSeq(arr, Min(a, Len(arr)) + 1, Min(b, Len(arr)))

\* np.diff(arr, prepend=p)
Diff(arr, p) ==
    [i \in 1..Len(arr) |-> arr[i] - (IF i = 1 THEN p ELSE arr[i - 1])]

RECURSIVE AscendingFrom(_, _)
AscendingFrom(S, acc) ==
    IF S = {} THEN acc
    ELSE LET m == CHOOSE x \in S : \A y \in S : x <= y
         IN AscendingFrom(S \ {m}, Append(acc, m))

\* np.flatnonzero(mask): the 0-based indices of the True entries, ascending
Flatnonzero(mask) ==
    AscendingFrom({i - 1 : i \in {j \in 1..Len(mask) : mask[j]}}, <<>>)

RECURSIVE TakeWhere(_, _, _)
TakeWhere(arr, keep, n) ==
    IF n = 0 THEN <<>>
    ELSE IF keep[n] THEN Append(TakeWhere(arr, keep, n - 1), arr[n])
                    ELSE TakeWhere(arr, keep, n - 1)

\* arr[keep], keep a boolean array of the same length
BoolIndex(arr, keep) == TakeWhere(arr, keep, Len(arr))

(* ---------------------------- find_onsets ------------------------------ *)
SignalDiffPrependZero(signal) == Diff(signal, 0)

\* signalDiff = np.diff(signal, prepend=signal[0])   (signal non-empty)
SignalDiff(signal) == Diff(signal, At(signal, 0))

\* signalOnset = signalDiff > signalThreshold
SignalOnset(signal, thr) ==
    [i \in 1..Len(signal) |-> SignalDiff(signal)[i] > thr]

OnsetDiffPrependZero(all, period) == Diff(all, 0)

\* onsetDiff = np.diff(onsetIndsAll, prepend=periodThreshold)
OnsetDiff(all, period) == Diff(all, period)

RepeatedOnsetsOffByOne(all, period) ==
    [i \in 1..Len(all) |-> OnsetDiff(all, period)[i] < period - 1]

RepeatedOnsetsInclusive(all, period) ==
    [i \in 1..Len(all) |-> OnsetDiff(all, period)[i] <= period]

\* repeatedOnsets = onsetDiff < periodThreshold
RepeatedOnsets(all, period) ==
    [i \in 1..Len(all) |-> OnsetDiff(all, period)[i] < period]

OnsetIndsFromDiff(all, period) ==
    BoolIndex(OnsetDiff(all, period),
              [i \in 1..Len(all) |-> ~RepeatedOnsets(all, period)[i]])

\* onsetInds = onsetIndsAll[~repeatedOnsets]
OnsetInds(all, period) ==
    BoolIndex(all, [i \in 1..Len(all) |-> ~RepeatedOnsets(all, period)[i]])

\* cell 5: onsetInds = find_onsets(soundWaveform, signalThreshold, periodThreshold)
\* signal[0] on an empty array raises IndexError.
FindOnsets(thr, period) ==
    /\ pc = "loaded"
    /\ signalThreshold' = thr
    /\ periodThreshold' = period
    /\ IF Len(sound) = 0
       THEN /\ pc' = "raised"
            /\ error' = "IndexError"
            /\ UNCHANGED <<onsetIndsAll, onsetInds>>
       ELSE /\ onsetIndsAll' = Flatnonzero(SignalOnset(sound, thr))
            /\ onsetInds' = OnsetInds(onsetIndsAll', period)
            /\ pc' = "onsets"
            /\ UNCHANGED error
    /\ UNCHANGED <<sound, soundDurationInSamples, indTrial, sweepDirection,
                   inFlight, classified>>

(* -------------------------- find_fm_direction -------------------------- *)
\* Real part of exp(-2 pi i j k / n) for the lengths whose twiddles are +-1
Twiddle(n, j, k) == IF (j * k) % 2 = 0 THEN 1 ELSE -1

RECURSIVE SumTo(_, _, _)
SumTo(x, k, n) ==
    IF n = 0 THEN 0 ELSE SumTo(x, k, n - 1) + x[n] * Twiddle(Len(x), n - 1, k)

\* abs(np.fft.rfft(x)) for len(x) in {1, 2}: len(x)//2 + 1 bins
RfftAbs(x) == [b \in 1..((Len(x) \div 2) + 1) |-> Abs(SumTo(x, b - 1, Len(x)))]

\* a.argmax(): 0-based index of the first maximum
Argmax(a) ==
    (CHOOSE i \in 1..Len(a) :
        /\ \A j \in 1..Len(a) : a[j] <= a[i]
        /\ \A j \in 1..(i - 1) : a[j] < a[i]) - 1

\* soundFirstHalf = sound[o : o + W//2]
SoundFirstHalf(snd, o, W) == Slice(snd, o, o + (W \div 2))

\* soundSecondHalf = sound[o + W//2 : o + W]
SoundSecondHalf(snd, o, W) == Slice(snd, o + (W \div 2), o + W)

FreqFirstHalf(snd, o, W) == Argmax(RfftAbs(SoundFirstHalf(snd, o, W)))
FreqSecondHalf(snd, o, W) == Argmax(RfftAbs(SoundSecondHalf(snd, o, W)))

up == 0
down == 1

DirectionOfGeq(f1, f2) == IF f1 >= f2 THEN down ELSE up

\* lines 104-107
DirectionOf(f1, f2) == IF f1 > f2 THEN down ELSE up

\* np.zeros(nTrials, dtype=int)
Zeros(n) == [i \in 1..n |-> 0]

\* cell 8: find_fm_direction(soundWaveform, onsetInds, soundDurationInSamples)
\* lines 94-96: nTrials, sweepDirectionLabels, sweepDirection
FindFmDirection(W) ==
    /\ pc = "onsets"
    /\ soundDurationInSamples' = W
    /\ indTrial' = 0
    /\ sweepDirection' = Zeros(Len(onsetInds))
    /\ pc' = "classifying"
    /\ UNCHANGED <<sound, error, signalThreshold, periodThreshold,
                   onsetIndsAll, onsetInds, inFlight, classified>>

\* one iteration of the loop, lines 97-107; np.fft.rfft of an empty array
\* raises ValueError
ClassifyTrial ==
    /\ pc = "classifying"
    /\ indTrial < Len(onsetInds)
    /\ LET o == At(onsetInds, indTrial)
           W == soundDurationInSamples
       IN IF Len(SoundFirstHalf(sound, o, W)) = 0
             \/ Len(SoundSecondHalf(sound, o, W)) = 0
          THEN /\ pc' = "raised"
               /\ error' = "ValueError"
               /\ UNCHANGED <<indTrial, sweepDirection>>
          ELSE /\ sweepDirection' =
                    [sweepDirection EXCEPT ![indTrial + 1] =
                        DirectionOf(FreqFirstHalf(sound, o, W),
                                    FreqSecondHalf(sound, o, W))]
               /\ indTrial' = indTrial + 1
               /\ UNCHANGED <<pc, error>>
    /\ UNCHANGED <<sound, signalThreshold, periodThreshold, onsetIndsAll,
                   onsetInds, soundDurationInSamples, inFlight, classified>>

\* line 108: return sweepDirection, sweepDirectionLabels
ReturnFmDirection ==
    /\ pc = "classifying"
    /\ indTrial = Len(onsetInds)
    /\ pc' = "done"
    /\ UNCHANGED <<sound, error, signalThreshold, periodThreshold,
                   onsetIndsAll, onsetInds,
                   soundDurationInSamples, indTrial, sweepDirection,
                   inFlight, classified>>

(* ---------------------- the loop body in any order --------------------- *)
\* The body of the loop (lines 98-107) run for the trials in an arbitrary
\* order and interleaved: a trial first computes its code from the waveform
\* and its own onset (lines 98-104), then stores it (lines 105/107).
\* inFlight holds <<trial, code>> for the trials that have computed and not
\* yet stored; classified is the set of trials that have stored.

TrialSlotByArrival(k) == Cardinality(classified) + 1

\* sweepDirection[indTrial]: the slot trial k writes
TrialSlot(k) == k + 1

\* lines 98-104 for trial k
ComputeTrial(k) ==
    /\ pc = "classifying"
    /\ k \in 0..(Len(onsetInds) - 1)
    /\ k \notin classified
    /\ \A e \in inFlight : e[1] # k
    /\ LET o == At(onsetInds, k)
           W == soundDurationInSamples
       IN IF Len(SoundFirstHalf(sound, o, W)) = 0
             \/ Len(SoundSecondHalf(sound, o, W)) = 0
          THEN /\ pc' = "raised"
               /\ error' = "ValueError"
               /\ UNCHANGED inFlight
          ELSE /\ inFlight' = inFlight \cup
                    {<<k, DirectionOf(FreqFirstHalf(sound, o, W),
                                      FreqSecondHalf(sound, o, W))>>}
               /\ UNCHANGED <<pc, error>>
    /\ UNCHANGED <<sound, signalThreshold, periodThreshold, onsetIndsAll,
                   onsetInds, soundDurationInSamples, indTrial,
                   sweepDirection, classified>>

\* lines 105/107 for a trial that has computed its code
StoreTrial(k) ==
    /\ pc = "classifying"
    /\ \E e \in inFlight :
            /\ e[1] = k
            /\ sweepDirection' = [sweepDirection EXCEPT ![TrialSlot(k)] = e[2]]
            /\ inFlight' = inFlight \ {e}
    /\ classified' = classified \cup {k}
    /\ UNCHANGED <<sound, pc, error, signalThreshold, periodThreshold,
                   onsetIndsAll, onsetInds, soundDurationInSamples, indTrial>>

\* line 108 once every trial has stored its code
JoinTrials ==
    /\ pc = "classifying"
    /\ classified = 0..(Len(onsetInds) - 1)
    /\ pc' = "done"
    /\ UNCHANGED <<sound, error, signalThreshold, periodThreshold,
                   onsetIndsAll, onsetInds, soundDurationInSamples,
                   indTrial, sweepDirection, inFlight, classified>>

(* ----------------------------- behaviours ------------------------------ *)
\* cell 4: the waveform is loaded; nothing else has run
Init ==
    /\ sound \in Waveforms
    /\ pc = "loaded"
    /\ error = "none"
    /\ signalThreshold = 0
    /\ periodThreshold = 0
    /\ onsetIndsAll = <<>>
    /\ onsetInds = <<>>
    /\ soundDurationInSamples = 0
    /\ indTrial = 0
    /\ sweepDirection = <<>>
    /\ inFlight = {}
    /\ classified = {}

Next ==
    \/ \E thr \in SignalThresholds, period \in 1..MaxPeriod :
            FindOnsets(thr, period)
    \/ \E W \in Durations : FindFmDirection(W)
    \/ ClassifyTrial
    \/ ReturnFmDirection

Spec == Init /\ [][Next]_vars

NextAnyOrder ==
    \/ \E thr \in SignalThresholds, period \in 1..MaxPeriod :
            FindOnsets(thr, period)
    \/ \E W \in Durations : FindFmDirection(W)
    \/ \E k \in 0..(MaxLen - 1) : ComputeTrial(k)
    \/ \E k \in 0..(MaxLen - 1) : StoreTrial(k)
    \/ JoinTrials

SpecAnyOrder == Init /\ [][NextAnyOrder]_vars

(* ------------------------------ claims --------------------------------- *)
\* find_onsets has returned its array (the classifier may have run since)
FindOnsetsReturned ==
    pc \in {"onsets", "classifying", "done"} \/ error = "ValueError"

\* find_fm_direction has been entered
FmDirectionCalled ==
    pc \in {"classifying", "done"} \/ error = "ValueError"

IsKept(c) == \E i \in 1..Len(onsetInds) : onsetInds[i] = c

\* C1: the array find_onsets returns is strictly increasing.
C1_StrictlyIncreasing ==
    FindOnsetsReturned =>
        \A i \in 1..(Len(onsetInds) - 1) : onsetInds[i] < onsetInds[i + 1]

C1_Witness ==
    /\ FindOnsetsReturned
    /\ Len(onsetInds) >= 2
    /\ Len(onsetInds) < Len(onsetIndsAll)

\* C2: consecutive elements of the returned array are at least
\* periodThreshold apart.
C2_MinimumPeriod ==
    FindOnsetsReturned =>
        \A i \in 1..(Len(onsetInds) - 1) :
            onsetInds[i + 1] - onsetInds[i] >= periodThreshold

C2_Witness ==
    /\ FindOnsetsReturned
    /\ periodThreshold >= 2
    /\ Len(onsetInds) >= 2

\* C3: whenever there is a candidate, the first candidate is in the
\* returned array.
C3_FirstCandidateKept ==
    (FindOnsetsReturned /\ Len(onsetIndsAll) > 0) => IsKept(onsetIndsAll[1])

\* C4: a candidate other than the first is returned exactly when its gap to
\* the candidate just before it is at least periodThreshold.
C4_GapToPreviousCandidate ==
    FindOnsetsReturned =>
        \A j \in 2..Len(onsetIndsAll) :
            IsKept(onsetIndsAll[j]) <=>
                (onsetIndsAll[j] - onsetIndsAll[j - 1] >= periodThreshold)

C4_Witness ==
    /\ FindOnsetsReturned
    /\ periodThreshold >= 2
    /\ \E j \in 2..Len(onsetIndsAll) :
            /\ onsetIndsAll[j] - onsetIndsAll[j - 1] = periodThreshold
            /\ IsKept(onsetIndsAll[j])
    /\ \E j \in 2..Len(onsetIndsAll) :
            /\ onsetIndsAll[j] - onsetIndsAll[j - 1] = periodThreshold - 1
            /\ ~IsKept(onsetIndsAll[j])

\* C5: two candidates a < b with b - a >= periodThreshold give exactly
\* [a, b].
C5_TwoFarJumps ==
    (/\ FindOnsetsReturned
     /\ Len(onsetIndsAll) = 2
     /\ onsetIndsAll[2] - onsetIndsAll[1] >= periodThreshold)
        => onsetInds = onsetIndsAll

\* C6: two candidates a < b with b - a < periodThreshold give exactly [a].
C6_TwoCloseJumps ==
    (/\ FindOnsetsReturned
     /\ Len(onsetIndsAll) = 2
     /\ onsetIndsAll[2] - onsetIndsAll[1] < periodThreshold)
        => onsetInds = <<onsetIndsAll[1]>>

\* The lowest index at which the magnitude spectrum of window x is maximal
DominantBin(x) ==
    LET mags == RfftAbs(x)
        top == {b \in 1..Len(mags) : \A c \in 1..Len(mags) : mags[c] <= mags[b]}
    IN (CHOOSE b \in top : \A c \in top : b <= c) - 1

FirstHalfOf(k) ==
    Slice(sound, onsetInds[k], onsetInds[k] + soundDurationInSamples \div 2)

SecondHalfOf(k) ==
    Slice(sound, onsetInds[k] + soundDurationInSamples \div 2,
          onsetInds[k] + soundDurationInSamples)

CodeOfOnset(k) ==
    IF DominantBin(FirstHalfOf(k)) > DominantBin(SecondHalfOf(k)) THEN 1 ELSE 0

\* C7: every call of find_fm_direction returns, and what it returns has one
\* code per onset, element k being the code of onset k.
C7_OneCodePerOnset ==
    /\ FmDirectionCalled => pc # "raised"
    /\ pc = "done" =>
        /\ Len(sweepDirection) = Len(onsetInds)
        /\ \A k \in 1..Len(onsetInds) : sweepDirection[k] = CodeOfOnset(k)

\* C8: a classified onset has code 1 exactly when the dominant bin of its
\* first half-window is strictly greater than that of its second
\* half-window, and code 0 otherwise.
C8_DownIffFirstBinGreater ==
    FmDirectionCalled =>
        \A k \in 1..indTrial :
            /\ sweepDirection[k] = 1 <=>
                    DominantBin(FirstHalfOf(k)) > DominantBin(SecondHalfOf(k))
            /\ sweepDirection[k] = 0 <=>
                    DominantBin(FirstHalfOf(k)) <= DominantBin(SecondHalfOf(k))

C8_Witness ==
    /\ pc = "done"
    /\ \E k \in 1..indTrial : sweepDirection[k] = 1
    /\ \E k \in 1..indTrial :
            /\ sweepDirection[k] = 0
            /\ DominantBin(FirstHalfOf(k)) = 1
            /\ DominantBin(SecondHalfOf(k)) = 1

\* C9: find_onsets called with an empty waveform returns an empty array
\* and raises nothing.
C9_EmptyWaveformReturnsEmpty ==
    (Len(sound) = 0 /\ pc # "loaded") =>
        (FindOnsetsReturned /\ error = "none" /\ onsetInds = <<>>)

\* C10: an onset whose window runs past the end of the waveform still gets
\* a code, 0 or 1, and the call returns: no error is raised for it.
C10_TruncatedWindowClassified ==
    \A k \in 1..Len(onsetInds) :
        (/\ FmDirectionCalled
         /\ onsetInds[k] + soundDurationInSamples > Len(sound))
            => /\ error = "none"
               /\ k <= indTrial => sweepDirection[k] \in {0, 1}

NonIncreasing(signal) ==
    \A i \in 2..Len(signal) : signal[i] <= signal[i - 1]

\* C12: index 0 is never a candidate, and a non-empty waveform that never
\* rises (all-zero included) gives no candidate and an empty returned array.
C12_NonIncreasingGivesNoOnset ==
    FindOnsetsReturned =>
        /\ \A i \in 1..Len(onsetIndsAll) : onsetIndsAll[i] # 0
        /\ NonIncreasing(sound) => (onsetIndsAll = <<>> /\ onsetInds = <<>>)

C12_Witness ==
    /\ FindOnsetsReturned
    /\ Len(sound) >= 3
    /\ NonIncreasing(sound)
    /\ sound[1] > signalThreshold
    /\ sound[Len(sound)] < sound[1]
    /\ onsetInds = <<>>

SequentialLoopRaises ==
    \E i \in 1..Len(onsetInds) :
        \/ Len(SoundFirstHalf(sound, onsetInds[i], soundDurationInSamples)) = 0
        \/ Len(SoundSecondHalf(sound, onsetInds[i], soundDurationInSamples)) = 0

\* the array the sequential loop of lines 97-107 leaves, started at trial i
\* with array dir
RECURSIVE SequentialLoop(_, _)
SequentialLoop(i, dir) ==
    IF i >= Len(onsetInds) THEN dir
    ELSE SequentialLoop(i + 1,
            [dir EXCEPT ![i + 1] =
                DirectionOf(
                    FreqFirstHalf(sound, At(onsetInds, i), soundDurationInSamples),
                    FreqSecondHalf(sound, At(onsetInds, i), soundDurationInSamples))])

\* C11: whatever the order and interleaving of the trials, the joined
\* result is the array the sequential loop produces, a trial that has stored
\* holds the sequential loop's code in its own slot, and the call raises
\* only where the sequential loop raises.
C11_AnyOrderSameDirections ==
    /\ pc = "done" =>
        /\ ~SequentialLoopRaises
        /\ sweepDirection = SequentialLoop(0, Zeros(Len(onsetInds)))
    /\ (pc = "classifying" /\ ~SequentialLoopRaises) =>
        \A k \in classified :
            sweepDirection[k + 1] =
                SequentialLoop(0, Zeros(Len(onsetInds)))[k + 1]
    /\ error = "ValueError" => SequentialLoopRaises

\* two trials with different codes, the later one stored while the earlier
\* one is still in flight
C11_Witness ==
    /\ pc = "classifying"
    /\ ~SequentialLoopRaises
    /\ \E k \in classified : \E e \in inFlight :
            /\ e[1] < k
            /\ e[2] # sweepDirection[k + 1]

====
